---- MODULE Spec2Model ----
(***************************************************************************)
(* Model of terminal_agent/agent.py: the tool executors, the dangerous     *)
(* command blocklist, the permission gate (check_permission/prompt_user),  *)
(* the dispatcher (execute_tool) and the session loop (run_agent).         *)
(*                                                                         *)
(* Python values are tagged: a str is [s |-> <<tokens>>] (a sequence of    *)
(* tokens: words of a command, segments of a path, characters of a file),  *)
(* an int is [i |-> n].  A dict is a function from its keys to values.     *)
(***************************************************************************)
EXTENDS Integers, Sequences, FiniteSets, TLC

\* ----------------------------------------------------------------- bounds
\* longest message history the session is explored to
MaxMessages == 5
\* most tool calls in one model response
MaxCalls == 2
\* longest file content and longest old_text edit_file is called with
MaxContent == 3
MaxOld == 2
\* most lines of output the shell command of a run_bash call prints
MaxLines == 52

\* ------------------------------------------------------------ py values
PyStr(toks) == [s |-> toks]
PyInt(n) == [i |-> n]
IsStr(x) == "s" \in DOMAIN x
IsInt(x) == "i" \in DOMAIN x
\* Python truthiness of a str or an int
Truthy(x) == IF IsStr(x) THEN x.s # <<>> ELSE x.i # 0

Min(a, b) == IF a < b THEN a ELSE b
Max(a, b) == IF a > b THEN a ELSE b

\* dict.get(key, default)
Get(args, key, default) == IF key \in DOMAIN args THEN args[key] ELSE default
\* dict with key set to value (assignment d[key] = value)
SetKey(d, key, value) == [k \in DOMAIN d \cup {key} |-> IF k = key THEN value ELSE d[k]]

\* ---------------------------------------------------------- file system
\* the working directory of the process and the two entries the calls name
Cwd == <<"/cwd">>
PathA == <<"/cwd", "a">>
PathD == <<"/cwd", "d">>
FsPaths == {PathA, PathD}
Absent == [kind |-> "absent"]
Dir == [kind |-> "dir"]
File(c) == [kind |-> "file", content |-> c]

\* resolve_path: a relative path is made absolute against the cwd and
\* normalised ("." is the cwd itself); a non-str argument makes Path() raise
resolve_path(p) ==
    IF ~IsStr(p) THEN [raised |-> "TypeError"]
    ELSE IF p.s # <<>> /\ Head(p.s) = "/cwd" THEN [path |-> p.s]
    ELSE IF p.s = <<".">> \/ p.s = <<>> THEN [path |-> Cwd]
    ELSE [path |-> Cwd \o p.s]

\* what the file system holds at an absolute path
Lookup(fsys, path) ==
    IF path = Cwd THEN Dir
    ELSE IF path \in DOMAIN fsys THEN fsys[path]
    ELSE Absent

\* --------------------------------------------------------- str helpers
\* does pat occur in text starting at position i (1-based)
OccursAt(text, pat, i) ==
    /\ i >= 1
    /\ i + Len(pat) - 1 <= Len(text)
    /\ \A j \in 1..Len(pat) : text[i + j - 1] = pat[j]

\* str.count(sub): the number of non-overlapping occurrences, scanning from
\* the left; the empty string occurs len + 1 times
RECURSIVE CountFrom(_, _, _)
CountFrom(text, pat, i) ==
    IF i + Len(pat) - 1 > Len(text) THEN 0
    ELSE IF OccursAt(text, pat, i) THEN 1 + CountFrom(text, pat, i + Len(pat))
    ELSE CountFrom(text, pat, i + 1)

Count(text, pat) == IF pat = <<>> THEN Len(text) + 1 ELSE CountFrom(text, pat, 1)

\* index of the first occurrence of pat in text (str.find), 0 when absent
RECURSIVE FindFrom(_, _, _)
FindFrom(text, pat, i) ==
    IF i + Len(pat) - 1 > Len(text) THEN 0
    ELSE IF OccursAt(text, pat, i) THEN i
    ELSE FindFrom(text, pat, i + 1)

\* str.replace(old, new, 1): the first occurrence replaced
ReplaceFirst(text, old, new) ==
    LET at == FindFrom(text, old, 1) IN
    IF at = 0 THEN text
    ELSE SubSeq(text, 1, at - 1) \o new \o SubSeq(text, at + Len(old), Len(text))

\* ------------------------------------------------- dangerous blocklist
\* str.lower() on the tokens the commands use
Lower(tok) ==
    CASE tok = "REBOOT" -> "reboot"
      [] tok = "RM" -> "rm"
      [] OTHER -> tok

LowerAll(toks) == [j \in 1..Len(toks) |-> Lower(toks[j])]

\* DANGEROUS_PATTERNS in dict order; a pattern is the sequence of words
\* its regular expression matches with \s+ between them
DANGEROUS_PATTERNS == <<
    [pattern |-> <<"rm", "-rf", "/">>,
     explanation |-> "Recursively deletes the entire filesystem starting from root"],
    [pattern |-> <<"rm", "-rf", "~">>,
     explanation |-> "Recursively deletes your entire home folder"],
    [pattern |-> <<"shutdown">>, explanation |-> "Shuts down the computer"],
    [pattern |-> <<"reboot">>, explanation |-> "Reboots the computer"],
    [pattern |-> <<"ufw", "disable">>,
     explanation |-> "Disables the firewall entirely"] >>

\* re.search(pattern, command, re.IGNORECASE)
re_search(pattern, command) ==
    \E at \in 1..Len(command) : OccursAt(LowerAll(command), LowerAll(pattern), at)

\* a mutant of check_dangerous_command: matching is case-sensitive
check_dangerous_command_cased(command) ==
    LET hits == {n \in 1..Len(DANGEROUS_PATTERNS) :
                    \E at \in 1..Len(command) :
                        OccursAt(command, DANGEROUS_PATTERNS[n].pattern, at)} IN
    IF hits = {} THEN [is_dangerous |-> FALSE, explanation |-> ""]
    ELSE [is_dangerous |-> TRUE,
          explanation |-> DANGEROUS_PATTERNS[CHOOSE n \in hits : \A m \in hits : n <= m].explanation]

\* check_dangerous_command: the first matching pattern wins
check_dangerous_command(command) ==
    LET hits == {n \in 1..Len(DANGEROUS_PATTERNS) :
                    re_search(DANGEROUS_PATTERNS[n].pattern, command)} IN
    IF hits = {} THEN [is_dangerous |-> FALSE, explanation |-> ""]
    ELSE [is_dangerous |-> TRUE,
          explanation |-> DANGEROUS_PATTERNS[CHOOSE n \in hits : \A m \in hits : n <= m].explanation]

\* ------------------------------------------------------ executor results
\* an executor either returns a result dict or raises; it may have changed
\* the file system, and shell is the sequence of subprocess.run invocations
\* it made (none or one)
Ret(r, fsys, shell) == [kind |-> "ret", result |-> r, fs |-> fsys, shell |-> shell]
Raise(e, fsys, shell) == [kind |-> "raise", error |-> e, fs |-> fsys, shell |-> shell]
Failure(text) == [success |-> FALSE, error |-> text]

\* Path.read_text: the file is opened in text mode with universal newlines,
\* so a "\r\n" on disk is read as "\n"; Path.write_text writes a str as it
\* is (the "\n" of a POSIX system)
read_text(c) == [j \in 1..Len(c) |-> IF c[j] = "\r\n" THEN "\n" ELSE c[j]]

\* read_file
read_file(fsys, filename) ==
    LET rp == resolve_path(filename) IN
    IF "raised" \in DOMAIN rp THEN Ret(Failure(rp.raised), fsys, <<>>)
    ELSE LET ent == Lookup(fsys, rp.path) IN
         CASE ent.kind = "absent" -> Ret(Failure("File not found: {filename}"), fsys, <<>>)
           [] ent.kind = "dir" -> Ret(Failure("IsADirectoryError"), fsys, <<>>)
           [] OTHER -> Ret([success |-> TRUE, file_path |-> rp.path,
                            content |-> read_text(ent.content)], fsys, <<>>)

\* the sorted entries of a directory
Entries(fsys, path) ==
    IF path = Cwd
    THEN (IF fsys[PathA].kind = "absent" THEN <<>>
          ELSE << [name |-> "a", type |-> IF fsys[PathA].kind = "dir" THEN "directory" ELSE "file"] >>)
         \o (IF fsys[PathD].kind = "absent" THEN <<>>
             ELSE << [name |-> "d", type |-> IF fsys[PathD].kind = "dir" THEN "directory" ELSE "file"] >>)
    ELSE <<>>

\* list_files
list_files(fsys, path) ==
    LET rp == resolve_path(path) IN
    IF "raised" \in DOMAIN rp THEN Ret(Failure(rp.raised), fsys, <<>>)
    ELSE IF Lookup(fsys, rp.path).kind # "dir"
         THEN Ret(Failure("Not a directory: {path}"), fsys, <<>>)
         ELSE Ret([success |-> TRUE, path |-> rp.path,
                   items |-> Entries(fsys, rp.path)], fsys, <<>>)

\* a mutant of write_file: success is reported but the text is not yet on
\* disk when the next call runs
write_file_deferred(fsys, path, content) ==
    LET rp == resolve_path(path) IN
    IF "raised" \in DOMAIN rp THEN Ret(Failure(rp.raised), fsys, <<>>)
    ELSE IF ~IsStr(content) THEN Ret(Failure("TypeError"), fsys, <<>>)
    ELSE IF Lookup(fsys, rp.path).kind = "dir"
         THEN Ret(Failure("IsADirectoryError"), fsys, <<>>)
    ELSE Ret([success |-> TRUE, path |-> rp.path, action |-> "created"], fsys, <<>>)

\* write_file: Path.write_text rejects a non-str before opening the file,
\* and opening a directory for writing fails
write_file(fsys, path, content) ==
    LET rp == resolve_path(path) IN
    IF "raised" \in DOMAIN rp THEN Ret(Failure(rp.raised), fsys, <<>>)
    ELSE IF ~IsStr(content) THEN Ret(Failure("TypeError"), fsys, <<>>)
    ELSE IF Lookup(fsys, rp.path).kind = "dir"
         THEN Ret(Failure("IsADirectoryError"), fsys, <<>>)
    ELSE Ret([success |-> TRUE, path |-> rp.path, action |-> "created"],
             SetKey(fsys, rp.path, File(content.s)), <<>>)

\* edit_file
edit_file(fsys, path, old_text, new_text) ==
    LET rp == resolve_path(path) IN
    IF "raised" \in DOMAIN rp THEN Ret(Failure(rp.raised), fsys, <<>>)
    ELSE LET ent == Lookup(fsys, rp.path) IN
         IF ent.kind = "absent" THEN Ret(Failure("File not found: {path}"), fsys, <<>>)
         ELSE IF ent.kind = "dir" THEN Ret(Failure("IsADirectoryError"), fsys, <<>>)
         ELSE IF ~IsStr(old_text) THEN Ret(Failure("TypeError"), fsys, <<>>)
         ELSE LET content == read_text(ent.content)
                  count == Count(content, old_text.s) IN
              IF count = 0
              THEN Ret([success |-> FALSE, error |-> "old_text not found in file",
                        path |-> rp.path], fsys, <<>>)
              ELSE IF count > 1
              THEN Ret([success |-> FALSE,
                        error |-> "old_text appears {count} times in file",
                        path |-> rp.path], fsys, <<>>)
              ELSE IF ~IsStr(new_text) THEN Ret(Failure("TypeError"), fsys, <<>>)
              ELSE Ret([success |-> TRUE, path |-> rp.path, action |-> "edited"],
                       SetKey(fsys, rp.path,
                              File(ReplaceFirst(content, old_text.s, new_text.s))),
                       <<>>)

\* ---------------------------------------------------------------- shell
\* a text is the sequence of the pieces text.split('\n') yields; a piece
\* is an output line [ln |-> n], an empty string [empty |-> TRUE] or a
\* marker the truncation inserts
MoreMarker(k) == [marker |-> "more lines", omitted |-> k]
OmittedHead(k) == [marker |-> "lines omitted", omitted |-> k]
OmittedMid(k) == [marker |-> "lines omitted ...", omitted |-> k]

\* lines[-n:] for 0 < n <= len
LastN(lines, n) == SubSeq(lines, Len(lines) - n + 1, Len(lines))

\* run_bash.truncate_output
truncate_output(lines, max_lines, output_lines) ==
    IF Len(lines) <= max_lines \/ output_lines = PyStr(<<"all">>) THEN lines
    ELSE LET omitted == Len(lines) - max_lines IN
         IF output_lines = PyStr(<<"first">>)
         THEN SubSeq(lines, 1, max_lines) \o << MoreMarker(omitted) >>
         ELSE IF output_lines = PyStr(<<"last">>)
         THEN << OmittedHead(omitted) >> \o LastN(lines, max_lines)
         ELSE LET half == max_lines \div 2 IN
              SubSeq(lines, 1, half) \o << OmittedMid(omitted) >> \o LastN(lines, half)

\* what subprocess.run can do with a command: exit with a code and two
\* streams, exceed the timeout, or fail to start
ShellOutcomes ==
    { [kind |-> "exit", returncode |-> 0, stdout |-> << [ln |-> 1], [empty |-> TRUE] >>,
       stderr |-> << [empty |-> TRUE] >>],
      [kind |-> "exit", returncode |-> 1, stdout |-> << [empty |-> TRUE] >>,
       stderr |-> << [ln |-> 1], [empty |-> TRUE] >>],
      [kind |-> "timeout"],
      [kind |-> "oserror"] }

OutputModes == {PyStr(<<"first">>), PyStr(<<"last">>), PyStr(<<"both">>), PyStr(<<"all">>)}

\* a mutant of run_bash: the timeout is capped at 600 but has no floor
run_bash_no_floor(fsys, command, timeout, output_lines, out) ==
    IF ~IsStr(command) THEN Raise("TypeError", fsys, <<>>)
    ELSE LET danger_check == check_dangerous_command(command.s) IN
    IF danger_check.is_dangerous
    THEN Ret([success |-> FALSE, blocked |-> TRUE,
              error |-> "BLOCKED: This command is dangerous and cannot be executed.",
              command |-> command.s, reason |-> danger_check.explanation], fsys, <<>>)
    ELSE IF ~IsInt(timeout) THEN Raise("TypeError", fsys, <<>>)
    ELSE LET t == Min(600, timeout.i)
             mode == IF output_lines \in OutputModes THEN output_lines ELSE PyStr(<<"both">>)
             inv == << [command |-> command.s, timeout |-> t] >> IN
         CASE out.kind = "timeout" ->
                Ret(Failure("Command timed out ({timeout}s limit)"), fsys, inv)
           [] out.kind = "oserror" -> Ret(Failure("OSError"), fsys, inv)
           [] OTHER ->
                Ret([success |-> out.returncode = 0, exit_code |-> out.returncode,
                     stdout |-> truncate_output(out.stdout, 50, mode),
                     stderr |-> truncate_output(out.stderr, 20, mode)], fsys, inv)

\* run_bash: the blocklist first, then the clamps, then the shell
run_bash(fsys, command, timeout, output_lines, out) ==
    IF ~IsStr(command) THEN Raise("TypeError", fsys, <<>>)
    ELSE LET danger_check == check_dangerous_command(command.s) IN
    IF danger_check.is_dangerous
    THEN Ret([success |-> FALSE, blocked |-> TRUE,
              error |-> "BLOCKED: This command is dangerous and cannot be executed.",
              command |-> command.s, reason |-> danger_check.explanation], fsys, <<>>)
    ELSE IF ~IsInt(timeout) THEN Raise("TypeError", fsys, <<>>)
    ELSE LET t == Max(1, Min(600, timeout.i))
             mode == IF output_lines \in OutputModes THEN output_lines ELSE PyStr(<<"both">>)
             inv == << [command |-> command.s, timeout |-> t] >> IN
         CASE out.kind = "timeout" ->
                Ret(Failure("Command timed out ({timeout}s limit)"), fsys, inv)
           [] out.kind = "oserror" -> Ret(Failure("OSError"), fsys, inv)
           [] OTHER ->
                Ret([success |-> out.returncode = 0, exit_code |-> out.returncode,
                     stdout |-> truncate_output(out.stdout, 50, mode),
                     stderr |-> truncate_output(out.stderr, 20, mode)], fsys, inv)

\* ------------------------------------------------------------ registry
ReadOnlyTools == {"read_file", "list_files", "web_search", "web_fetch"}
\* the keys of TOOLS
TOOLS == {"read_file", "list_files", "write_file", "edit_file", "run_bash",
          "web_search", "web_fetch"}

\* the parameters of each tool function that have no default
Required(name) ==
    CASE name = "read_file" -> {"filename"}
      [] name = "list_files" -> {}
      [] name = "write_file" -> {"path", "content"}
      [] name = "edit_file" -> {"path", "old_text", "new_text"}
      [] name = "run_bash" -> {"command"}
      [] name = "web_search" -> {"query"}
      [] name = "web_fetch" -> {"url"}

\* the parameters that have a default
Optional(name) ==
    CASE name = "list_files" -> {"path"}
      [] name = "run_bash" -> {"timeout", "output_lines"}
      [] name = "web_search" -> {"max_results"}
      [] OTHER -> {}

\* f(**arguments) binds: every required name present, no unknown name
Binds(name, arguments) ==
    /\ Required(name) \subseteq DOMAIN arguments
    /\ DOMAIN arguments \subseteq Required(name) \cup Optional(name)

\* TOOLS[name](**arguments) for the five local tools; env is what the
\* world outside the process does (the shell's outcome)
CallTool(name, arguments, fsys, env) ==
    IF ~Binds(name, arguments) THEN Raise("TypeError", fsys, <<>>)
    ELSE CASE name = "read_file" -> read_file(fsys, arguments["filename"])
           [] name = "list_files" -> list_files(fsys, Get(arguments, "path", PyStr(<<".">>)))
           [] name = "write_file" -> write_file(fsys, arguments["path"], arguments["content"])
           [] name = "edit_file" -> edit_file(fsys, arguments["path"], arguments["old_text"],
                                              arguments["new_text"])
           [] name = "run_bash" -> run_bash(fsys, arguments["command"],
                                            Get(arguments, "timeout", PyInt(30)),
                                            Get(arguments, "output_lines", PyStr(<<"both">>)),
                                            env.shell)

\* ------------------------------------------------------ permission gate
default == "default"
accept_edits == "accept-edits"
yolo == "yolo"
\* class PermissionMode
PermissionMode == {default, accept_edits, yolo}

\* to_relative_path is display only, but Path() raises TypeError on a
\* non-str, which its except ValueError does not catch
to_relative_path_raises(p) == ~IsStr(p)

\* old_text[:50] + "..." if len(old_text) > 50 else old_text
Preview(t) == IF Len(t) > 50 THEN SubSeq(t, 1, 50) \o <<"...">> ELSE t

Allow == [kind |-> "allow"]
Ask(action, details, denial) ==
    [kind |-> "prompt", action |-> action, details |-> details, denial |-> denial]
GateRaises(e) == [kind |-> "raise", error |-> e]

\* a mutant of check_permission: accept-edits is taken to cover the shell
check_permission_edits_cover_bash(tool_name, args, mode) ==
    IF tool_name \in ReadOnlyTools \/ mode \in {yolo, accept_edits} THEN Allow
    ELSE IF tool_name = "write_file"
    THEN Ask("Write file", Get(args, "path", PyStr(<<"?">>)), "User declined to write file")
    ELSE IF tool_name = "edit_file"
    THEN Ask("Edit file", Get(args, "path", PyStr(<<"?">>)), "User declined to edit file")
    ELSE IF tool_name = "run_bash"
    THEN Ask("Run command", Get(args, "command", PyStr(<<"?">>)), "User declined to run command")
    ELSE Allow

\* a mutant of check_permission: accept-edits does not pre-approve edits
check_permission_edits_always_ask(tool_name, args, mode) ==
    IF tool_name \in ReadOnlyTools \/ mode = yolo THEN Allow
    ELSE IF tool_name = "write_file"
    THEN Ask("Write file", Get(args, "path", PyStr(<<"?">>)), "User declined to write file")
    ELSE IF tool_name = "edit_file"
    THEN Ask("Edit file", Get(args, "path", PyStr(<<"?">>)), "User declined to edit file")
    ELSE IF tool_name = "run_bash"
    THEN Ask("Run command", Get(args, "command", PyStr(<<"?">>)), "User declined to run command")
    ELSE Allow

\* a mutant of check_permission: the early return for read-only tools is
\* gone and the write branch takes every tool whose name ends in "_file"
check_permission_files_prompt(tool_name, args, mode) ==
    IF mode = yolo THEN Allow
    ELSE IF tool_name \in {"write_file", "read_file", "edit_file"}
    THEN IF mode = accept_edits THEN Allow
         ELSE Ask("Write file", Get(args, "path", PyStr(<<"?">>)), "User declined to write file")
    ELSE IF tool_name = "run_bash"
    THEN Ask("Run command", Get(args, "command", PyStr(<<"?">>)), "User declined to run command")
    ELSE Allow

\* a mutant of check_permission: a tool the gate does not know is asked
\* about instead of allowed
check_permission_unknown_asks(tool_name, args, mode) ==
    IF tool_name \in ReadOnlyTools THEN Allow
    ELSE IF mode = yolo THEN Allow
    ELSE IF tool_name \in {"write_file", "edit_file"}
    THEN IF mode = accept_edits THEN Allow
         ELSE Ask("Write file", Get(args, "path", PyStr(<<"?">>)), "User declined to write file")
    ELSE IF tool_name = "run_bash"
    THEN Ask("Run command", [command |-> Get(args, "command", PyStr(<<"?">>))],
             "User declined to run command")
    ELSE Ask("Use tool", tool_name, "User declined to use tool")

\* check_permission up to the point where it returns without asking,
\* raises, or calls prompt_user; mode is the global PERMISSION_MODE
check_permission(tool_name, args, mode) ==
    IF tool_name \in ReadOnlyTools THEN Allow
    ELSE IF mode = yolo THEN Allow
    ELSE IF tool_name = "write_file"
    THEN IF mode = accept_edits THEN Allow
         ELSE LET path == Get(args, "path", PyStr(<<"?">>))
                  content == Get(args, "content", PyStr(<<>>)) IN
              IF to_relative_path_raises(path) THEN GateRaises("TypeError")
              ELSE IF Truthy(content) /\ ~IsStr(content) THEN GateRaises("AttributeError")
              ELSE Ask("Write file",
                       [path |-> path.s,
                        lines |-> IF Truthy(content)
                                  THEN Count(content.s, <<"\n">>) + 1 ELSE 0],
                       "User declined to write file")
    ELSE IF tool_name = "edit_file"
    THEN IF mode = accept_edits THEN Allow
         ELSE LET path == Get(args, "path", PyStr(<<"?">>))
                  old_text == Get(args, "old_text", PyStr(<<>>))
                  new_text == Get(args, "new_text", PyStr(<<>>)) IN
              IF to_relative_path_raises(path) THEN GateRaises("TypeError")
              ELSE IF ~IsStr(old_text) \/ ~IsStr(new_text) THEN GateRaises("TypeError")
              ELSE Ask("Edit file",
                       [path |-> path.s, old_preview |-> Preview(old_text.s),
                        new_preview |-> Preview(new_text.s)],
                       "User declined to edit file")
    ELSE IF tool_name = "run_bash"
    THEN Ask("Run command", [command |-> Get(args, "command", PyStr(<<"?">>))],
             "User declined to run command")
    ELSE Allow

\* what input() can hand to prompt_user: a line, or an exception
Line(text) == [line |-> text]
Interrupt(e) == [raised |-> e]
PromptInputs == {Line("y"), Line(" Yes "), Line("n"), Line(""),
                 Interrupt("KeyboardInterrupt"), Interrupt("EOFError")}

\* str.strip().lower() on the lines a user types
StripLower(text) ==
    CASE text = " Yes " -> "yes"
      [] OTHER -> text

\* a mutant of prompt_user: an interruption counts as consent
prompt_user_interrupt_yes(inp) ==
    IF "raised" \in DOMAIN inp THEN TRUE
    ELSE StripLower(inp.line) \in {"y", "yes"}

\* a mutant of prompt_user: the empty answer counts as consent
prompt_user_empty_yes(inp) ==
    IF "raised" \in DOMAIN inp THEN FALSE
    ELSE StripLower(inp.line) \in {"y", "yes", ""}

\* prompt_user: the value it returns for what input() gave
prompt_user(inp) ==
    IF "raised" \in DOMAIN inp THEN FALSE
    ELSE StripLower(inp.line) \in {"y", "yes"}

\* ----------------------------------------------------------- dispatcher
\* json.dumps(obj, indent=...): the text of obj; indent 0 is no indent
JsonDumps(obj, indent) == [json |-> obj, indent |-> indent]

\* what the web service can do with a request
WebOutcomes == {"ok", "error"}

\* the environment's part in one execution of a tool: the shell's outcome
\* for run_bash, the web service's for the two web tools
Envs(name) ==
    [shell : IF name = "run_bash" THEN ShellOutcomes ELSE {[kind |-> "timeout"]},
     web : IF name \in {"web_search", "web_fetch"} THEN WebOutcomes ELSE {"ok"}]

\* the outcome of the try block of execute_tool: the text it returns, the
\* file system after it, the shell invocations it made, the arguments dict
\* after it (web_search clamps max_results in place), and whether the
\* executor was called
Done(text, fsys, shell, arguments, called) ==
    [value |-> text, fs |-> fsys, shell |-> shell, arguments |-> arguments,
     called |-> called]

\* execute_tool from try: to the end
execute_tool_try(name, arguments, fsys, env) ==
    IF name = "web_search"
    THEN IF "max_results" \in DOMAIN arguments /\ ~IsInt(arguments["max_results"])
         THEN Done(JsonDumps(Failure("TypeError"), 2), fsys, <<>>, arguments, FALSE)
         ELSE LET clamped ==
                    IF "max_results" \in DOMAIN arguments
                    THEN SetKey(arguments, "max_results",
                                PyInt(Max(1, Min(10, arguments["max_results"].i))))
                    ELSE arguments IN
              IF ~Binds(name, clamped)
              THEN Done(JsonDumps(Failure("TypeError"), 2), fsys, <<>>, clamped, FALSE)
              ELSE IF env.web = "error"
              THEN Done(JsonDumps(Failure("web error"), 2), fsys, <<>>, clamped, TRUE)
              ELSE Done(JsonDumps([success |-> TRUE, results |-> <<>>], 2),
                        fsys, <<>>, clamped, TRUE)
    ELSE IF name = "web_fetch"
    THEN IF ~Binds(name, arguments)
         THEN Done(JsonDumps(Failure("TypeError"), 2), fsys, <<>>, arguments, FALSE)
         ELSE IF env.web = "error"
         THEN Done(JsonDumps(Failure("web error"), 2), fsys, <<>>, arguments, TRUE)
         ELSE Done(JsonDumps([success |-> TRUE, title |-> "t", content |-> <<>>,
                              links |-> <<>>], 2), fsys, <<>>, arguments, TRUE)
    ELSE LET out == CallTool(name, arguments, fsys, env) IN
         IF out.kind = "raise"
         THEN Done(JsonDumps(Failure(out.error), 2), out.fs, out.shell, arguments,
                   Binds(name, arguments))
         ELSE Done(JsonDumps(out.result, 2), out.fs, out.shell, arguments, TRUE)

\* -------------------------------------------------------------- session
\* the tool calls a model response may carry
Call(name, arguments) == [name |-> name, arguments |-> arguments]
SafeCommand == <<"ls">>
DangerousCommands == {<<"rm", "-rf", "/">>, <<"sudo", "REBOOT">>}

\* the calls a response with several calls is made of: a read, a write, a
\* write whose content is not a str, a safe and a dangerous command, and a
\* search whose max_results is out of range
CoreCalls ==
    { Call("read_file", [filename |-> PyStr(<<"a">>)]),
      Call("write_file", [path |-> PyStr(<<"a">>), content |-> PyStr(<<"x">>)]),
      Call("write_file", [path |-> PyStr(<<"a">>), content |-> PyInt(7)]),
      Call("run_bash", [command |-> PyStr(SafeCommand)]),
      Call("run_bash", [command |-> PyStr(<<"rm", "-rf", "/">>)]),
      Call("web_search", [query |-> PyStr(<<"q">>), max_results |-> PyInt(50)]) }

\* the calls a response with one call may carry: the core calls, the other
\* tools, calls with a missing key, an unexpected key or a value of the
\* wrong type, a write to a directory, a dangerous command in upper case
\* with a timeout out of range, and a tool that does not exist
ToolCalls ==
    CoreCalls \cup
    { Call("list_files", [path |-> PyStr(<<".">>)]),
      Call("write_file", [path |-> PyStr(<<"a">>)]),
      Call("write_file", [path |-> PyStr(<<"d">>), content |-> PyStr(<<"x">>)]),
      Call("edit_file", [path |-> PyStr(<<"a">>), old_text |-> PyStr(<<"x">>),
                         new_text |-> PyStr(<<"y">>)]),
      Call("edit_file", [path |-> PyStr(<<"a">>), old_text |-> PyInt(7),
                         new_text |-> PyStr(<<"y">>)]),
      Call("run_bash", [command |-> PyStr(<<"sudo", "REBOOT">>), timeout |-> PyInt(5000)]),
      Call("run_bash", [command |-> PyInt(7)]),
      Call("run_bash", [command |-> PyStr(SafeCommand), cwd |-> PyStr(<<".">>)]),
      Call("web_fetch", [url |-> PyStr(<<"u">>)]),
      Call("no_such_tool", [path |-> PyStr(<<"a">>)]) }

\* the tool_calls of a response: none, one call, or up to MaxCalls core calls
CallLists ==
    {<<>>} \cup { <<c>> : c \in ToolCalls }
           \cup UNION { [1..n -> CoreCalls] : n \in 2..MaxCalls }

\* the messages a model call may return
Responses ==
    { [role |-> "assistant", content |-> PyStr(<<"answer">>), tool_calls |-> calls] :
        calls \in CallLists }

\* the models the session may talk to: DEFAULT_MODEL and another one
DEFAULT_MODEL == "minimax-m2.1:cloud"
Models == {DEFAULT_MODEL, "llama3:8b"}

\* the token counts a response may report: both, or neither (None)
Usages == { [prompt_eval_count |-> PyInt(2), eval_count |-> PyInt(1)],
            [none |-> TRUE] }

\* TokenTracker.add: a missing or None count adds 0
TokenTracker_add(t, response) ==
    [total_input |-> t.total_input +
        (IF "prompt_eval_count" \in DOMAIN response THEN response.prompt_eval_count.i ELSE 0),
     total_output |-> t.total_output +
        (IF "eval_count" \in DOMAIN response THEN response.eval_count.i ELSE 0)]

VARIABLES
    pc,               \* where run_agent is: "input", "model", "tools", "prompt",
                      \* "stopped" (left the loop), "crashed" (an exception escaped)
    messages,         \* the message history
    PERMISSION_MODE,  \* the global permission mode
    MODEL,            \* the global model name
    tokens,           \* the TokenTracker: total_input and total_output
    fs,               \* the file system: what each path holds
    resp,             \* index in messages of the response whose calls are dispatched
    idx,              \* index of the current call in that response
    disp,             \* the execute_tool call in progress or just finished: its
                      \* arguments, how far it got and what it did; forgotten
                      \* when the loop goes back to the model
    cycled,           \* the mode the last /mode command left, if one was given
                      \* since the last tool call returned; NoMode otherwise
    spinner           \* the Spinner of the model call in flight: its stop_event
                      \* and where its thread is

vars == <<pc, messages, PERMISSION_MODE, MODEL, tokens, fs, resp, idx, disp, cycled, spinner>>

NoInput == [none |-> TRUE]
NoValue == [none |-> TRUE]
\* the gate was not consulted
NoGate == [kind |-> "none"]
\* no /mode command was given
NoMode == "none"
\* no Spinner was built yet
NoSpinner == [stop_event |-> FALSE, thread |-> "none"]

Init ==
    /\ pc = "input"
    /\ messages = <<>>
    /\ PERMISSION_MODE \in PermissionMode
    /\ MODEL \in Models
    /\ tokens = [total_input |-> 0, total_output |-> 0]
    /\ fs \in { [p \in FsPaths |-> IF p = PathD THEN Dir ELSE a] :
                  a \in {Absent, File(<<"x">>)} }
    /\ resp = 0
    /\ idx = 0
    /\ disp = [stage |-> "idle"]
    /\ cycled = NoMode
    /\ spinner = NoSpinner

\* a mutant of CurrentCall: the for loop walks the calls from the last
CurrentCall_reversed ==
    messages[resp].tool_calls[Len(messages[resp].tool_calls) - idx + 1]

\* the call the tool loop is at
CurrentCall == messages[resp].tool_calls[idx]

\* the record of a dispatch of the current call
Dispatch(stage, gate, inp, permitted, called, shell, value) ==
    [stage |-> stage, name |-> CurrentCall.name, arguments |-> CurrentCall.arguments,
     mode |-> PERMISSION_MODE, gate |-> gate.kind, prompted |-> gate.kind = "prompt",
     denial |-> IF gate.kind = "prompt" THEN gate.denial ELSE "",
     input |-> inp, permitted |-> permitted, called |-> called, shell |-> shell,
     value |-> value, fs0 |-> fs, cycled |-> cycled]

\* run_agent after execute_tool returned text: the arguments dict of the
\* call is the one inside the assistant message, the tool message is
\* appended, and the loop moves to the next call or back to the model
ToolReturned(text, arguments) ==
    /\ messages' = Append(
            [messages EXCEPT ![resp].tool_calls[idx].arguments = arguments],
            [role |-> "tool", tool_name |-> CurrentCall.name, content |-> text])
    /\ IF idx < Len(messages[resp].tool_calls)
       THEN /\ idx' = idx + 1
            /\ pc' = "tools"
            /\ resp' = resp
       ELSE /\ idx' = 0
            /\ resp' = 0
            /\ pc' = "model"
    /\ cycled' = NoMode

\* execute_tool from line 548 on, then the rest of the loop body
RunTool(gate, inp) ==
    \E env \in Envs(CurrentCall.name) :
        LET out == execute_tool_try(CurrentCall.name, CurrentCall.arguments, fs, env) IN
        /\ disp' = Dispatch("returned", gate, inp, TRUE, out.called, out.shell, out.value)
        /\ fs' = out.fs
        /\ ToolReturned(out.value, out.arguments)

\* a mutant of ToolStep: execute_tool without the lookup of line 540; an
\* unknown name passes the gate and the KeyError of TOOLS[name] is caught
ToolStep_no_lookup ==
    /\ pc = "tools"
    /\ UNCHANGED <<PERMISSION_MODE, MODEL, tokens, spinner>>
    /\ LET g == check_permission(CurrentCall.name, CurrentCall.arguments,
                                 PERMISSION_MODE) IN
       CASE g.kind = "raise" ->
               /\ disp' = Dispatch("raised", g, NoInput, FALSE, FALSE, <<>>, NoValue)
               /\ pc' = "crashed"
               /\ UNCHANGED <<messages, fs, resp, idx, cycled>>
         [] g.kind = "prompt" ->
               /\ disp' = Dispatch("prompt", g, NoInput, FALSE, FALSE, <<>>, NoValue)
               /\ pc' = "prompt"
               /\ UNCHANGED <<messages, fs, resp, idx, cycled>>
         [] OTHER ->
               IF CurrentCall.name \notin TOOLS
               THEN LET text == JsonDumps(Failure("KeyError"), 2) IN
                    /\ disp' = Dispatch("returned", g, NoInput, TRUE, FALSE, <<>>, text)
                    /\ ToolReturned(text, CurrentCall.arguments)
                    /\ UNCHANGED fs
               ELSE RunTool(g, NoInput)

\* one pass of the for loop up to the point where execute_tool returns,
\* raises or waits in prompt_user
ToolStep ==
    /\ pc = "tools"
    /\ UNCHANGED <<PERMISSION_MODE, MODEL, tokens, spinner>>
    /\ IF CurrentCall.name \notin TOOLS
       THEN LET text == JsonDumps(Failure("Unknown tool: {name}"), 0) IN
            /\ disp' = Dispatch("returned", NoGate, NoInput, FALSE, FALSE, <<>>, text)
            /\ ToolReturned(text, CurrentCall.arguments)
            /\ UNCHANGED fs
       ELSE LET g == check_permission(CurrentCall.name, CurrentCall.arguments,
                                      PERMISSION_MODE) IN
            CASE g.kind = "raise" ->
                    /\ disp' = Dispatch("raised", g, NoInput, FALSE, FALSE, <<>>, NoValue)
                    /\ pc' = "crashed"
                    /\ UNCHANGED <<messages, fs, resp, idx, cycled>>
              [] g.kind = "prompt" ->
                    /\ disp' = Dispatch("prompt", g, NoInput, FALSE, FALSE, <<>>, NoValue)
                    /\ pc' = "prompt"
                    /\ UNCHANGED <<messages, fs, resp, idx, cycled>>
              [] OTHER -> RunTool(g, NoInput)

\* the user answers (or interrupts) the prompt; check_permission and
\* execute_tool run on from there
PromptAnswer ==
    /\ pc = "prompt"
    /\ UNCHANGED <<PERMISSION_MODE, MODEL, tokens, spinner>>
    /\ \E inp \in PromptInputs :
        LET g == [kind |-> "prompt", denial |-> disp.denial] IN
        IF prompt_user(inp)
        THEN RunTool(g, inp)
        ELSE LET text == JsonDumps(Failure(disp.denial), 0) IN
             /\ disp' = Dispatch("returned", g, inp, FALSE, FALSE, <<>>, text)
             /\ ToolReturned(text, CurrentCall.arguments)
             /\ UNCHANGED fs

\* ------------------------------------------------------ the input loop
\* input() at the "You:" prompt raises KeyboardInterrupt or EOFError
InputInterrupted ==
    /\ pc = "input"
    /\ pc' = "stopped"
    /\ UNCHANGED <<messages, PERMISSION_MODE, MODEL, tokens, fs, resp, idx, disp, cycled, spinner>>

\* an empty line: continue
EmptyInput ==
    /\ pc = "input"
    /\ UNCHANGED vars

\* /help: print and continue
SlashHelp ==
    /\ pc = "input"
    /\ UNCHANGED vars

\* /model without a name: print the current model and the usage
SlashModelShow ==
    /\ pc = "input"
    /\ UNCHANGED vars

\* /model <name>: switch the model
SlashModel ==
    /\ pc = "input"
    /\ \E name \in Models : MODEL' = name
    /\ UNCHANGED <<pc, messages, PERMISSION_MODE, tokens, fs, resp, idx, disp, cycled, spinner>>

\* /tokens: print the counters
SlashTokens ==
    /\ pc = "input"
    /\ UNCHANGED vars

\* a mutant of SlashMode: the cycle leaves yolo out
SlashMode_skips_yolo ==
    /\ pc = "input"
    /\ PERMISSION_MODE' = IF PERMISSION_MODE = default THEN accept_edits ELSE default
    /\ cycled' = PERMISSION_MODE
    /\ UNCHANGED <<pc, messages, MODEL, tokens, fs, resp, idx, disp, spinner>>

\* /mode: cycle the permission mode
SlashMode ==
    /\ pc = "input"
    /\ PERMISSION_MODE' = CASE PERMISSION_MODE = default -> accept_edits
                            [] PERMISSION_MODE = accept_edits -> yolo
                            [] OTHER -> default
    /\ cycled' = PERMISSION_MODE
    /\ UNCHANGED <<pc, messages, MODEL, tokens, fs, resp, idx, disp, spinner>>

\* a mutant of SlashClear: the reset takes the permission mode along
SlashClear_resets_mode ==
    /\ pc = "input"
    /\ messages' = <<>>
    /\ tokens' = [total_input |-> 0, total_output |-> 0]
    /\ PERMISSION_MODE' = default
    /\ UNCHANGED <<pc, MODEL, fs, resp, idx, disp, cycled, spinner>>

\* /clear: messages.clear() and both counters back to zero
SlashClear ==
    /\ pc = "input"
    /\ messages' = <<>>
    /\ tokens' = [total_input |-> 0, total_output |-> 0]
    /\ UNCHANGED <<pc, PERMISSION_MODE, MODEL, fs, resp, idx, disp, cycled, spinner>>

\* a mutant of SlashUnknown: the continue is missing, and the word is sent
\* to the model as a user message
SlashUnknown_as_text ==
    /\ pc = "input"
    /\ Len(messages) + 2 <= MaxMessages
    /\ messages' = Append(messages, [role |-> "user", content |-> PyStr(<<"/foo">>)])
    /\ pc' = "model"
    /\ UNCHANGED <<PERMISSION_MODE, MODEL, tokens, fs, resp, idx, disp, cycled, spinner>>

\* any other word starting with "/": an error is printed
SlashUnknown ==
    /\ pc = "input"
    /\ UNCHANGED vars

\* /quit, /exit, quit, exit
Quit ==
    /\ pc = "input"
    /\ pc' = "stopped"
    /\ UNCHANGED <<messages, PERMISSION_MODE, MODEL, tokens, fs, resp, idx, disp, cycled, spinner>>

\* any other text: the user message is appended and the agent loop starts
UserText ==
    /\ pc = "input"
    /\ Len(messages) + 2 <= MaxMessages
    /\ messages' = Append(messages, [role |-> "user", content |-> PyStr(<<"hello">>)])
    /\ pc' = "model"
    /\ UNCHANGED <<PERMISSION_MODE, MODEL, tokens, fs, resp, idx, disp, cycled, spinner>>

\* ------------------------------------------------------- the agent loop
\* chat() returns a response: its tokens are counted and its message is
\* appended; with tool calls the for loop starts, without the inner loop ends
ModelResponds ==
    /\ pc = "model"
    /\ \E u \in Usages : tokens' = TokenTracker_add(tokens, u)
    /\ \E r \in Responses :
        /\ Len(messages) + 1 + Len(r.tool_calls)
             + (IF r.tool_calls = <<>> THEN 0 ELSE 1) <= MaxMessages
        /\ messages' = Append(messages, r)
        /\ IF r.tool_calls # <<>>
           THEN /\ pc' = "tools"
                /\ resp' = Len(messages) + 1
                /\ idx' = 1
           ELSE /\ pc' = "input"
                /\ resp' = 0
                /\ idx' = 0
    /\ disp' = [stage |-> "idle"]
    /\ UNCHANGED <<PERMISSION_MODE, MODEL, fs, cycled, spinner>>

\* a mutant of ModelFails: the handler also puts the mode back to default
ModelFails_resets_mode ==
    /\ pc = "model"
    /\ messages' = SubSeq(messages, 1, Len(messages) - 1)
    /\ pc' = "input"
    /\ disp' = [stage |-> "idle"]
    /\ PERMISSION_MODE' = default
    /\ UNCHANGED <<MODEL, tokens, fs, resp, idx, cycled, spinner>>

\* a mutant of ModelFails: the pop takes the oldest message
ModelFails_pop_first ==
    /\ pc = "model"
    /\ messages' = SubSeq(messages, 2, Len(messages))
    /\ pc' = "input"
    /\ disp' = [stage |-> "idle"]
    /\ UNCHANGED <<PERMISSION_MODE, MODEL, tokens, fs, resp, idx, cycled, spinner>>

\* chat() raises an Exception: messages.pop() and back to the input loop
ModelFails ==
    /\ pc = "model"
    /\ messages' = SubSeq(messages, 1, Len(messages) - 1)
    /\ pc' = "input"
    /\ disp' = [stage |-> "idle"]
    /\ UNCHANGED <<PERMISSION_MODE, MODEL, tokens, fs, resp, idx, cycled, spinner>>

\* KeyboardInterrupt during chat(): not an Exception, so only the finally
\* clause runs and the interrupt leaves run_agent
ModelInterrupted ==
    /\ pc = "model"
    /\ pc' = "crashed"
    /\ disp' = [stage |-> "idle"]
    /\ UNCHANGED <<messages, PERMISSION_MODE, MODEL, tokens, fs, resp, idx, cycled, spinner>>

Next ==
    \/ InputInterrupted
    \/ EmptyInput
    \/ SlashHelp
    \/ SlashMode
    \/ SlashModelShow
    \/ SlashModel
    \/ SlashTokens
    \/ SlashClear
    \/ SlashUnknown
    \/ Quit
    \/ UserText
    \/ ModelResponds
    \/ ModelFails
    \/ ModelInterrupted
    \/ ToolStep
    \/ PromptAnswer

Spec == Init /\ [][Next]_vars

\* ------------------------------------- edit_file and read_file on a file
\* every sequence over S of length at most n
Seqs(S, n) == UNION { [1..k -> S] : k \in 0..n }

\* what a file on disk is made of: a letter and a line ending "\r\n"
FileChars == {"a", "\r\n"}
\* what the text arguments of a call are made of
TextChars == {"a", "\n"}
OldTexts == Seqs(TextChars, MaxOld)
NewTexts == {<<>>, <<"b">>}

\* edit_file is about to be called with a path, an old_text and a new_text
\* on a file system where the path is absent or a file
InitEdit ==
    /\ pc = "edit_file"
    /\ fs \in { [p \in FsPaths |-> IF p = PathD THEN Dir ELSE a] :
                  a \in {Absent} \cup { File(c) : c \in Seqs(FileChars, MaxContent) } }
    /\ \E old \in OldTexts, new \in NewTexts :
          disp = [stage |-> "args",
                  arguments |-> [path |-> PyStr(<<"a">>), old_text |-> PyStr(old),
                                 new_text |-> PyStr(new)],
                  fs0 |-> fs]
    /\ messages = <<>>
    /\ PERMISSION_MODE = default
    /\ MODEL = DEFAULT_MODEL
    /\ tokens = [total_input |-> 0, total_output |-> 0]
    /\ resp = 0
    /\ idx = 0
    /\ cycled = NoMode
    /\ spinner = NoSpinner

\* edit_file(path, old_text, new_text)
EditFileCall ==
    /\ pc = "edit_file"
    /\ LET a == disp.arguments
           out == edit_file(fs, a["path"], a["old_text"], a["new_text"]) IN
       /\ fs' = out.fs
       /\ disp' = [stage |-> "edited", arguments |-> a, fs0 |-> disp.fs0,
                   edit |-> out.result]
    /\ pc' = "read_file"
    /\ UNCHANGED <<messages, PERMISSION_MODE, MODEL, tokens, resp, idx, cycled, spinner>>

\* read_file(path) after the edit
ReadFileCall ==
    /\ pc = "read_file"
    /\ LET out == read_file(fs, disp.arguments["path"]) IN
       /\ fs' = out.fs
       /\ disp' = [stage |-> "read", arguments |-> disp.arguments, fs0 |-> disp.fs0,
                   edit |-> disp.edit, read |-> out.result]
    /\ pc' = "done"
    /\ UNCHANGED <<messages, PERMISSION_MODE, MODEL, tokens, resp, idx, cycled, spinner>>

NextEdit ==
    \/ EditFileCall
    \/ ReadFileCall

SpecEdit == InitEdit /\ [][NextEdit]_vars

\* ------------------------------------------------ run_bash on a command
\* text.split('\n') of an output of n lines: with the newline that ends
\* the last line there is one more piece, the empty string; the empty
\* output is one empty piece
Pieces(n, newline) ==
    IF n = 0 THEN << [empty |-> TRUE] >>
    ELSE [j \in 1..n |-> [ln |-> j]] \o (IF newline THEN << [empty |-> TRUE] >> ELSE <<>>)

\* the output of 1000 lines of the spec's scenario
ManyLines == 1000
LineCounts == 0..MaxLines \cup {ManyLines}

\* what the command of the call does: it prints n lines and exits, or it
\* does not end in time
BashOutcomes ==
    { [kind |-> "exit", returncode |-> 0, stdout |-> Pieces(n, newline),
       stderr |-> Pieces(0, FALSE)] : n \in LineCounts, newline \in BOOLEAN }
    \cup { [kind |-> "timeout"] }

\* the timeouts and the output_lines values a call may ask for
Timeouts == {-1, 0, 1, 30, 600, 601, 5000}
OutputLines == OutputModes \cup {PyStr(<<"tail">>)}

\* run_bash is about to be called with a safe command
InitBash ==
    /\ pc = "run_bash"
    /\ fs = [p \in FsPaths |-> IF p = PathD THEN Dir ELSE Absent]
    /\ \E t \in Timeouts, m \in OutputLines, o \in BashOutcomes :
          disp = [stage |-> "args",
                  arguments |-> [command |-> PyStr(SafeCommand), timeout |-> PyInt(t),
                                 output_lines |-> m],
                  out |-> o]
    /\ messages = <<>>
    /\ PERMISSION_MODE = default
    /\ MODEL = DEFAULT_MODEL
    /\ tokens = [total_input |-> 0, total_output |-> 0]
    /\ resp = 0
    /\ idx = 0
    /\ cycled = NoMode
    /\ spinner = NoSpinner

\* run_bash(command, timeout, output_lines)
BashCall ==
    /\ pc = "run_bash"
    /\ LET a == disp.arguments
           r == run_bash(fs, a["command"], a["timeout"], a["output_lines"], disp.out) IN
       /\ fs' = r.fs
       /\ disp' = [stage |-> "returned", arguments |-> a, out |-> disp.out,
                   shell |-> r.shell, result |-> r.result]
    /\ pc' = "done"
    /\ UNCHANGED <<messages, PERMISSION_MODE, MODEL, tokens, resp, idx, cycled, spinner>>

NextBash == BashCall

SpecBash == InitBash /\ [][NextBash]_vars

\* --------------------------------------- check_permission on its own
\* names that are not keys of TOOLS
UnknownNames == {"no_such_tool", "delete_file"}

\* check_permission is about to be called with a tool name and an argument
\* mapping under a permission mode
InitGate ==
    /\ pc = "check_permission"
    /\ PERMISSION_MODE \in PermissionMode
    /\ \E n \in TOOLS \cup UnknownNames, c \in ToolCalls :
          disp = [stage |-> "args", name |-> n, arguments |-> c.arguments]
    /\ fs = [p \in FsPaths |-> IF p = PathD THEN Dir ELSE Absent]
    /\ messages = <<>>
    /\ MODEL = DEFAULT_MODEL
    /\ tokens = [total_input |-> 0, total_output |-> 0]
    /\ resp = 0
    /\ idx = 0
    /\ cycled = NoMode
    /\ spinner = NoSpinner

\* what a finished call of check_permission is remembered by: the pair it
\* returned, or the exception it raised
Gated(prompted, inp, returned) ==
    [stage |-> "returned", name |-> disp.name, arguments |-> disp.arguments,
     mode |-> PERMISSION_MODE, prompted |-> prompted, input |-> inp,
     returned |-> returned]

\* check_permission(tool_name, args) up to its return or its prompt
GateCall ==
    /\ pc = "check_permission"
    /\ LET g == check_permission(disp.name, disp.arguments, PERMISSION_MODE) IN
       CASE g.kind = "allow" ->
               /\ disp' = Gated(FALSE, NoInput, [permitted |-> "True", reason |-> "None"])
               /\ pc' = "done"
         [] g.kind = "raise" ->
               /\ disp' = Gated(FALSE, NoInput, [raised |-> g.error])
               /\ pc' = "done"
         [] OTHER ->
               /\ disp' = [stage |-> "prompt", name |-> disp.name,
                           arguments |-> disp.arguments, denial |-> g.denial]
               /\ pc' = "prompt"
    /\ UNCHANGED <<messages, PERMISSION_MODE, MODEL, tokens, fs, resp, idx, cycled, spinner>>

\* the answer to the prompt, and the pair check_permission returns for it
GateAnswer ==
    /\ pc = "prompt"
    /\ \E inp \in PromptInputs :
          disp' = Gated(TRUE, inp,
                        IF prompt_user(inp)
                        THEN [permitted |-> "True", reason |-> "None"]
                        ELSE [permitted |-> "False", reason |-> disp.denial])
    /\ pc' = "done"
    /\ UNCHANGED <<messages, PERMISSION_MODE, MODEL, tokens, fs, resp, idx, cycled, spinner>>

NextGate ==
    \/ GateCall
    \/ GateAnswer

SpecGate == InitGate /\ [][NextGate]_vars

\* -------------------------------------------- the session, left to run
\* The session when no chat() call is interrupted, every chat() call returns
\* or raises, the tool loop goes on and every prompt gets its input: nothing
\* in run_agent waits for anything else.
NextLive ==
    \/ InputInterrupted
    \/ EmptyInput
    \/ SlashHelp
    \/ SlashMode
    \/ SlashModelShow
    \/ SlashModel
    \/ SlashTokens
    \/ SlashClear
    \/ SlashUnknown
    \/ Quit
    \/ UserText
    \/ ModelResponds
    \/ ModelFails
    \/ ToolStep
    \/ PromptAnswer

SpecLive ==
    /\ Init
    /\ [][NextLive]_vars
    /\ WF_vars(ModelResponds \/ ModelFails)
    /\ WF_vars(ToolStep)
    /\ WF_vars(PromptAnswer)

\* ------------------------------------------- a model call and its Spinner
\* The agent loop from Spinner("Thinking") to the use of chat()'s outcome,
\* with the Spinner's thread running beside it. pc is where run_agent is:
\* "model" (top of the loop), "chat" (chat() in flight), "except_stop" and
\* "except_join" (the stop() of the except clause), "handle" (the rest of the
\* except clause), "finally_stop" and "finally_join" (the stop() of the
\* finally clause), "use" (after the try statement). disp holds the outcome
\* of chat(). A response here carries no tool call: the inner loop ends.
InitSpinner ==
    /\ pc = "input"
    /\ messages = <<>>
    /\ PERMISSION_MODE = default
    /\ MODEL = DEFAULT_MODEL
    /\ tokens = [total_input |-> 0, total_output |-> 0]
    /\ fs = [p \in FsPaths |-> IF p = PathD THEN Dir ELSE Absent]
    /\ resp = 0
    /\ idx = 0
    /\ disp = [stage |-> "idle"]
    /\ cycled = NoMode
    /\ spinner = NoSpinner

\* Spinner("Thinking") and start(): the event is cleared and a new thread
\* starts at the test of its while loop; a thread of an earlier Spinner that
\* is still running is no longer referred to
Spinner_start ==
    /\ pc = "model"
    /\ spinner' = [stop_event |-> FALSE, thread |-> "test"]
    /\ pc' = "chat"
    /\ disp' = [stage |-> "chat"]
    /\ UNCHANGED <<messages, PERMISSION_MODE, MODEL, tokens, fs, resp, idx, cycled>>

\* _spin, the test of the while loop: the thread ends when the event is set
Spinner_spin_test ==
    /\ spinner.thread = "test"
    /\ spinner' = [spinner EXCEPT !.thread = IF spinner.stop_event THEN "ended"
                                                                   ELSE "write"]
    /\ UNCHANGED <<pc, messages, PERMISSION_MODE, MODEL, tokens, fs, resp, idx,
                   disp, cycled>>

\* _spin, the body of the loop: a frame is written to stdout
Spinner_spin_write ==
    /\ spinner.thread = "write"
    /\ spinner' = [spinner EXCEPT !.thread = "sleep"]
    /\ UNCHANGED <<pc, messages, PERMISSION_MODE, MODEL, tokens, fs, resp, idx,
                   disp, cycled>>

\* _spin, the end of time.sleep(0.1)
Spinner_spin_sleep ==
    /\ spinner.thread = "sleep"
    /\ spinner' = [spinner EXCEPT !.thread = "test"]
    /\ UNCHANGED <<pc, messages, PERMISSION_MODE, MODEL, tokens, fs, resp, idx,
                   disp, cycled>>

\* chat() returns a response without tool calls: the finally clause runs
ChatReturns ==
    /\ pc = "chat"
    /\ \E u \in Usages : \E r \in {x \in Responses : x.tool_calls = <<>>} :
         disp' = [stage |-> "returned", response |-> r, usage |-> u]
    /\ pc' = "finally_stop"
    /\ UNCHANGED <<messages, PERMISSION_MODE, MODEL, tokens, fs, resp, idx,
                   cycled, spinner>>

\* chat() raises an Exception: the except clause runs
ChatRaises ==
    /\ pc = "chat"
    /\ disp' = [stage |-> "raised"]
    /\ pc' = "except_stop"
    /\ UNCHANGED <<messages, PERMISSION_MODE, MODEL, tokens, fs, resp, idx,
                   cycled, spinner>>

\* Ctrl-C during chat(): a KeyboardInterrupt is no Exception, only the
\* finally clause runs
ChatInterrupted ==
    /\ pc = "chat"
    /\ disp' = [stage |-> "interrupted"]
    /\ pc' = "finally_stop"
    /\ UNCHANGED <<messages, PERMISSION_MODE, MODEL, tokens, fs, resp, idx,
                   cycled, spinner>>

\* Spinner.stop, its first statement: stop_event.set()
Spinner_stop ==
    /\ pc \in {"except_stop", "finally_stop"}
    /\ spinner' = [spinner EXCEPT !.stop_event = TRUE]
    /\ pc' = IF pc = "except_stop" THEN "except_join" ELSE "finally_join"
    /\ UNCHANGED <<messages, PERMISSION_MODE, MODEL, tokens, fs, resp, idx,
                   disp, cycled>>

\* Spinner.stop, the rest: thread.join(timeout=0.5) returns when the thread
\* has ended or when the half second is over, whichever comes first, and the
\* line is cleared; run_agent goes on after the clause stop() was called in
Spinner_join ==
    /\ pc \in {"except_join", "finally_join"}
    /\ \E timed_out \in BOOLEAN : timed_out \/ spinner.thread = "ended"
    /\ pc' = CASE pc = "except_join" -> "handle"
               [] disp.stage = "returned" -> "use"
               [] disp.stage = "handled" -> "input"
               [] OTHER -> "crashed"
    /\ UNCHANGED <<messages, PERMISSION_MODE, MODEL, tokens, fs, resp, idx,
                   disp, cycled, spinner>>

\* the rest of the except clause: the error is printed, the last message is
\* popped, and break leaves the loop through the finally clause
HandleFailure ==
    /\ pc = "handle"
    /\ messages' = SubSeq(messages, 1, Len(messages) - 1)
    /\ disp' = [stage |-> "handled"]
    /\ pc' = "finally_stop"
    /\ UNCHANGED <<PERMISSION_MODE, MODEL, tokens, fs, resp, idx, cycled, spinner>>

\* after the try statement: the tokens are counted, the message is appended
\* and, as it carries no tool call, the inner loop ends
UseResponse ==
    /\ pc = "use"
    /\ tokens' = TokenTracker_add(tokens, disp.usage)
    /\ messages' = Append(messages, disp.response)
    /\ pc' = "input"
    /\ UNCHANGED <<PERMISSION_MODE, MODEL, fs, resp, idx, disp, cycled, spinner>>

NextSpinner ==
    \/ UserText
    \/ Spinner_start
    \/ Spinner_spin_test
    \/ Spinner_spin_write
    \/ Spinner_spin_sleep
    \/ ChatReturns
    \/ ChatRaises
    \/ ChatInterrupted
    \/ Spinner_stop
    \/ Spinner_join
    \/ HandleFailure
    \/ UseResponse

SpecSpinner == InitSpinner /\ [][NextSpinner]_vars

\* =============================================================== claims
\* what the claims say of a dispatch, stated without the model's operators
SideEffecting == {"write_file", "edit_file", "run_bash"}
ReadOnly == {"read_file", "list_files", "web_search", "web_fetch"}
YesInputs == {Line("y"), Line(" Yes ")}
Interrupts == {Interrupt("KeyboardInterrupt"), Interrupt("EOFError")}

\* the dispatch is of run_bash with a command that matches a dangerous pattern
IsDangerousCall(d) ==
    /\ d.name = "run_bash"
    /\ "command" \in DOMAIN d.arguments
    /\ IsStr(d.arguments["command"])
    /\ d.arguments["command"].s \in DangerousCommands

\* the explanation the blocklist gives for each dangerous command
ExpectedReason(command) ==
    IF command = <<"rm", "-rf", "/">>
    THEN "Recursively deletes the entire filesystem starting from root"
    ELSE "Reboots the computer"

\* the result dict of a finished dispatch
Result(d) == d.value.json

\* C1: in every permission mode and whatever the user answers, a run_bash
\* dispatch whose command matches a dangerous pattern never reaches the
\* shell (subprocess.run is not invoked).
C1_DangerousNeverRuns ==
    disp.stage # "idle" => (IsDangerousCall(disp) => disp.shell = <<>>)

\* C1 witness: a dangerous command dispatched in default mode, the user
\* said yes at the prompt, and the dispatch returned.
C1_Witness ==
    /\ disp.stage = "returned"
    /\ IsDangerousCall(disp)
    /\ disp.mode = default
    /\ disp.input \in YesInputs

\* C2 (as claimed): in every permission mode, execute_tool for run_bash with
\* a dangerous command returns blocked=true and the matched pattern's
\* explanation as reason.
C2_DangerousReturnsBlocked ==
    (disp.stage = "returned" /\ IsDangerousCall(disp)) =>
        /\ "blocked" \in DOMAIN Result(disp)
        /\ Result(disp).blocked = TRUE
        /\ Result(disp).reason = ExpectedReason(disp.arguments["command"].s)

\* C3 (as claimed): for a dangerous command the permission gate is not
\* consulted and no prompt is shown, in any permission mode.
C3_DangerousSkipsGate ==
    (disp.stage # "idle" /\ IsDangerousCall(disp)) =>
        (disp.gate = "none" /\ ~disp.prompted)

\* the call was approved: by the mode alone, or by a yes at its prompt
Approved(d) ==
    \/ d.mode = yolo
    \/ d.mode = accept_edits /\ d.name \in {"write_file", "edit_file"}
    \/ d.prompted /\ d.input \in YesInputs

\* the executor of the call ran or left a trace
Executed(d) == d.called \/ d.shell # <<>> \/ fs # d.fs0

\* C4: the executor of write_file, edit_file or run_bash runs for a call
\* only if that call passed the permission gate and was approved, by the
\* mode or by a yes answer to its own prompt; while the prompt waits
\* nothing has been executed.
C4_ExecutorOnlyIfApproved ==
    (disp.stage # "idle" /\ disp.name \in SideEffecting) =>
        /\ Executed(disp) => (Approved(disp) /\ disp.gate \in {"allow", "prompt"}
                              /\ disp.stage = "returned")
        /\ disp.stage = "prompt" => (~Executed(disp) /\ disp.input = NoInput)

\* C4 witness: a write ran in default mode after a yes at its prompt.
C4_Witness ==
    /\ disp.stage = "returned"
    /\ disp.name = "write_file"
    /\ disp.mode = default
    /\ disp.called
    /\ fs # disp.fs0

\* every argument mapping the calls of the model carry
ArgMappings == { c.arguments : c \in ToolCalls }

\* C5: in every permission mode and for every argument mapping the gate
\* allows read_file, list_files, web_search and web_fetch without a prompt.
C5_ReadOnlyNeverPrompts ==
    /\ \A t \in ReadOnly, m \in PermissionMode, a \in ArgMappings :
            check_permission(t, a, m).kind = "allow"
    /\ (disp.stage # "idle" /\ disp.name \in ReadOnly) =>
            (disp.stage = "returned" /\ disp.gate = "allow" /\ ~disp.prompted
             /\ disp.permitted /\ disp.input = NoInput)

\* C5 witness: a read_file dispatched in default mode has returned.
C5_Witness ==
    /\ disp.stage = "returned"
    /\ disp.name = "read_file"
    /\ disp.mode = default
    /\ Result(disp).success

TextArgsTyped(d) ==
    \A k \in DOMAIN d.arguments \cap {"path", "content", "old_text", "new_text"} :
        IsStr(d.arguments[k])

\* a write request with a str path and a str content and nothing else,
\* whose path is not a directory
PlainWrite(d) ==
    /\ d.name = "write_file"
    /\ DOMAIN d.arguments = {"path", "content"}
    /\ TextArgsTyped(d)
    /\ d.arguments["path"].s = <<"a">>

DeclineReason(name) ==
    CASE name = "write_file" -> "User declined to write file"
      [] name = "edit_file" -> "User declined to edit file"
      [] name = "run_bash" -> "User declined to run command"

\* the user was asked and did not say yes
Declined(d) == d.stage = "returned" /\ d.prompted /\ d.input \notin YesInputs

\* C8: when the user declines the prompt of a write_file, edit_file or
\* run_bash call, the dispatcher returns success=false with the gate's
\* reason, the executor is not invoked and the file system is as before.
C8_DeclineLeavesNoTrace ==
    Declined(disp) =>
        /\ disp.name \in SideEffecting
        /\ disp.value = JsonDumps([success |-> FALSE, error |-> DeclineReason(disp.name)], 0)
        /\ ~disp.called
        /\ disp.shell = <<>>
        /\ fs = disp.fs0

\* C8 witness: a write to a new path was declined with "n" and no file is
\* there.
C8_Witness ==
    /\ Declined(disp)
    /\ disp.name = "write_file"
    /\ disp.input = Line("n")
    /\ disp.fs0[PathA] = Absent
    /\ fs[PathA] = Absent

\* C9: an interruption (KeyboardInterrupt or EOFError) at a waiting prompt
\* counts as no: the tool is not executed, the dispatcher returns the
\* decline failure, the permission mode is unchanged, and the session goes
\* on with the tool result appended to the history.
C9_InterruptIsNo ==
    [][(pc = "prompt" /\ disp'.stage = "returned" /\ disp'.input \in Interrupts) =>
          /\ ~disp'.called
          /\ disp'.shell = <<>>
          /\ fs' = fs
          /\ disp'.value = JsonDumps([success |-> FALSE,
                                      error |-> DeclineReason(disp.name)], 0)
          /\ PERMISSION_MODE' = PERMISSION_MODE
          /\ pc' \in {"tools", "model"}
          /\ messages' = Append(messages, [role |-> "tool", tool_name |-> disp.name,
                                           content |-> disp'.value])]_vars

\* C9 witness: a prompt was interrupted and the session is back at the
\* model call with the decline as the last message.
C9_Witness ==
    /\ disp.stage = "returned"
    /\ disp.input \in Interrupts
    /\ pc = "model"
    /\ messages[Len(messages)].role = "tool"
    /\ ~Result(disp).success

\* C10 (as claimed): whatever the tool name and the argument mapping, in
\* every permission mode, execute_tool returns a result envelope and no
\* exception escapes it, so no tool call ends the session loop.
C10_NoExceptionEscapes ==
    /\ disp.stage # "raised"
    /\ pc # "crashed" \/ disp.stage = "idle"
    /\ disp.stage = "returned" => "success" \in DOMAIN Result(disp)

\* the seven registered tools
Registered == SideEffecting \cup ReadOnly

\* C11: a dispatch of a tool name outside the seven registered tools
\* returns the "Unknown tool" failure at once: the gate is not consulted,
\* no prompt is shown, no executor runs and nothing changes on disk, in
\* every permission mode.
C11_UnknownToolFailsAtOnce ==
    (disp.stage # "idle" /\ disp.name \notin Registered) =>
        /\ disp.stage = "returned"
        /\ disp.value = JsonDumps([success |-> FALSE, error |-> "Unknown tool: {name}"], 0)
        /\ disp.gate = "none"
        /\ ~disp.prompted
        /\ disp.input = NoInput
        /\ ~disp.called
        /\ disp.shell = <<>>
        /\ fs = disp.fs0
        /\ messages[Len(messages)] =
              [role |-> "tool", tool_name |-> disp.name, content |-> disp.value]

\* C11 witness: no_such_tool was dispatched in default mode and its
\* failure is the last message of the history.
C11_Witness ==
    /\ disp.stage = "returned"
    /\ disp.name = "no_such_tool"
    /\ disp.mode = default
    /\ ~Result(disp).success
    /\ messages[Len(messages)].role = "tool"

\* the index of the last user message of a history that has one
LastUser(msgs) ==
    CHOOSE i \in 1..Len(msgs) :
        /\ msgs[i].role = "user"
        /\ \A j \in (i + 1)..Len(msgs) : msgs[j].role # "user"

\* the history without its message at index i
RemoveAt(msgs, i) == SubSeq(msgs, 1, i - 1) \o SubSeq(msgs, i + 1, Len(msgs))

\* C12 (as claimed): whenever a model call fails, on the first call of the
\* turn or after tool rounds, the pending user message of the turn is
\* removed from the history, nothing else is, and the loop is back at the
\* user input.
C12_FailureRemovesUserMessage ==
    [][ModelFails =>
          /\ pc' = "input"
          /\ messages' = RemoveAt(messages, LastUser(messages))]_vars

\* C13 (as claimed): an interrupt while a model call is in flight brings
\* the same session back to the user input, with the user message just
\* appended removed from the history.
C13_InterruptReturnsToInput ==
    [][ModelInterrupted =>
          /\ pc' = "input"
          /\ messages' = RemoveAt(messages, LastUser(messages))]_vars

\* the index of the last assistant message of a history that has one
LastAssistant(msgs) ==
    CHOOSE i \in 1..Len(msgs) :
        /\ msgs[i].role = "assistant"
        /\ \A j \in (i + 1)..Len(msgs) : msgs[j].role # "assistant"

\* the messages after index r are tool messages, one for each of the first
\* n calls of the assistant message at r, in the order of the calls
ToolMessagesFollow(msgs, r, n) ==
    /\ msgs[r].role = "assistant"
    /\ n <= Len(msgs[r].tool_calls)
    /\ Len(msgs) = r + n
    /\ \A j \in 1..n :
          /\ msgs[r + j].role = "tool"
          /\ msgs[r + j].tool_name = msgs[r].tool_calls[j].name

\* C14: for a response with k >= 1 tool calls the assistant message is
\* appended and then one tool message per call, in the order of the calls,
\* each with the name of its tool and the text its dispatch returned: while
\* the round runs the calls before the current one have their messages,
\* and when the model is called next all k are there, no more and no less.
C14_OneToolMessagePerCall ==
    /\ pc \in {"tools", "prompt"} =>
          /\ resp = LastAssistant(messages)
          /\ idx \in 1..Len(messages[resp].tool_calls)
          /\ ToolMessagesFollow(messages, resp, idx - 1)
    /\ (pc = "model" /\ messages[Len(messages)].role = "tool") =>
          LET r == LastAssistant(messages) IN
          ToolMessagesFollow(messages, r, Len(messages[r].tool_calls))
    /\ disp.stage = "returned" =>
          messages[Len(messages)] =
              [role |-> "tool", tool_name |-> disp.name, content |-> disp.value]

\* C14 witness: a response asked for a write and then a read; both tool
\* messages are in the history in that order and the model is called next.
C14_Witness ==
    /\ pc = "model"
    /\ Len(messages) = 4
    /\ messages[2].role = "assistant"
    /\ Len(messages[2].tool_calls) = 2
    /\ messages[2].tool_calls[1].name = "write_file"
    /\ messages[2].tool_calls[2].name = "read_file"
    /\ messages[3].tool_name = "write_file"
    /\ messages[4].tool_name = "read_file"
    /\ messages[4].content = disp.value

\* the last two tool messages answer a write of a path and a read of the
\* same path that one response asked for in this order, and the write
\* reported success
WriteThenRead(msgs) ==
    /\ Len(msgs) >= 3
    /\ msgs[Len(msgs)].role = "tool"
    /\ LET r == LastAssistant(msgs)
           n == Len(msgs) - r IN
       /\ n >= 2
       /\ n <= Len(msgs[r].tool_calls)
       /\ LET w == msgs[r].tool_calls[n - 1]
              rd == msgs[r].tool_calls[n] IN
          /\ w.name = "write_file"
          /\ rd.name = "read_file"
          /\ DOMAIN w.arguments = {"path", "content"}
          /\ DOMAIN rd.arguments = {"filename"}
          /\ rd.arguments["filename"] = w.arguments["path"]
          /\ msgs[Len(msgs) - 1].content.json.success

\* the content the write before the last read was given
WrittenContent(msgs) ==
    LET r == LastAssistant(msgs) IN
    msgs[r].tool_calls[Len(msgs) - r - 1].arguments["content"]

C16_ToolRoundGoesToModel ==
    [][/\ (pc # "input" /\ pc' = "input") =>
             /\ pc = "model"
             /\ \/ /\ Len(messages') = Len(messages) + 1
                   /\ messages'[Len(messages')].role = "assistant"
                   /\ messages'[Len(messages')].tool_calls = <<>>
                \/ Len(messages') < Len(messages)
       /\ (pc = "model" /\ Len(messages') = Len(messages) + 1
              /\ messages'[Len(messages')].tool_calls # <<>>) => pc' = "tools"
       /\ pc \in {"tools", "prompt"} => pc' \in {"tools", "prompt", "model"}]_vars

\* what C17 compares of a message: its role, its content and the names of
\* its tool calls (whether the argument mappings of the calls stay as they
\* were is the subject of C25)
Shape(m) ==
    IF m.role = "assistant"
    THEN [role |-> m.role, content |-> m.content,
          names |-> [j \in 1..Len(m.tool_calls) |-> m.tool_calls[j].name]]
    ELSE m

Shapes(msgs) == [i \in 1..Len(msgs) |-> Shape(msgs[i])]

\* a is b or the beginning of b
IsPrefix(a, b) == Len(a) <= Len(b) /\ SubSeq(b, 1, Len(a)) = a

\* C17: in every step the history stays the same, is extended at its end,
\* is emptied by /clear at the user input, or loses messages from its end
\* when a model call fails; no other step removes a message, and the
\* messages that stay keep their places.
C17_HistoryAppendOnly ==
    [][LET a == Shapes(messages)
           b == Shapes(messages') IN
       \/ IsPrefix(a, b)
       \/ b = <<>> /\ pc = "input" /\ pc' = "input"
       \/ IsPrefix(b, a) /\ pc = "model" /\ pc' = "input"]_vars

\* C17 witness: the loop is at the user input and the history ends with an
\* assistant message that asked for tools, which only a rollback after a
\* tool round leaves behind.
C17_Witness ==
    /\ pc = "input"
    /\ Len(messages) >= 2
    /\ messages[Len(messages)].role = "assistant"
    /\ messages[Len(messages)].tool_calls # <<>>

\* the cycle of the modes
CycleOf(m) ==
    CASE m = "default" -> "accept-edits"
      [] m = "accept-edits" -> "yolo"
      [] m = "yolo" -> "default"

\* whether a call of a registered tool is to prompt under a mode
PromptsUnder(name, m) ==
    \/ name = "run_bash" /\ m # "yolo"
    \/ name \in {"write_file", "edit_file"} /\ m = "default"

\* C18: each /mode command moves the permission mode one step along
\* default -> accept-edits -> yolo -> default, so three of them restore the
\* mode; nothing else moves it; and the first tool call dispatched after a
\* /mode command is gated under the new mode.
C18_ModeCycles ==
    [][/\ SlashMode => PERMISSION_MODE' = CycleOf(PERMISSION_MODE)
       /\ PERMISSION_MODE' # PERMISSION_MODE =>
             (pc = "input" /\ pc' = "input"
              /\ PERMISSION_MODE' = CycleOf(PERMISSION_MODE))
       /\ \A m \in {"default", "accept-edits", "yolo"} : CycleOf(CycleOf(CycleOf(m))) = m
       /\ (disp'.stage \in {"prompt", "returned"} /\ disp'.cycled # NoMode) =>
             /\ disp'.mode = CycleOf(disp'.cycled)
             /\ disp'.mode = PERMISSION_MODE'
             /\ disp'.prompted <=> PromptsUnder(disp'.name, disp'.mode)]_vars

\* C18 witness: /mode was given in default mode, and the write_file call
\* dispatched next ran under accept-edits without a prompt.
C18_Witness ==
    /\ disp.stage = "returned"
    /\ disp.cycled = default
    /\ disp.mode = accept_edits
    /\ disp.name = "write_file"
    /\ ~disp.prompted
    /\ disp.called

\* C19: /clear drops every message and sets both token counters to zero,
\* and leaves the permission mode and the model as they were; the loop
\* stays at the user input.
C19_ClearKeepsMode ==
    [][/\ SlashClear =>
             /\ messages' = <<>>
             /\ tokens'.total_input = 0
             /\ tokens'.total_output = 0
             /\ PERMISSION_MODE' = PERMISSION_MODE
             /\ MODEL' = MODEL
             /\ pc' = "input"
       /\ (pc = "input" /\ messages # <<>> /\ messages' = <<>>) =>
             /\ tokens' = [total_input |-> 0, total_output |-> 0]
             /\ PERMISSION_MODE' = PERMISSION_MODE
             /\ MODEL' = MODEL]_vars

\* C19 witness: the history is empty and the counters are zero in yolo
\* mode with the other model, after a session in which a file was edited.
C19_Witness ==
    /\ pc = "input"
    /\ messages = <<>>
    /\ tokens = [total_input |-> 0, total_output |-> 0]
    /\ fs[PathA] = File(<<"y">>)
    /\ PERMISSION_MODE = yolo
    /\ MODEL # DEFAULT_MODEL

\* C20: an unknown slash command changes nothing: the history, the
\* permission mode, the model and the token counters are as before, no
\* model call is made and the loop stays at the user input.
C20_UnknownCommandNoEffect ==
    [][SlashUnknown =>
          /\ messages' = messages
          /\ PERMISSION_MODE' = PERMISSION_MODE
          /\ MODEL' = MODEL
          /\ tokens' = tokens
          /\ fs' = fs
          /\ pc' = "input"]_vars

\* C20 witness: the loop is at the user input with a history, counted
\* tokens, a mode and a model that are not the ones of a fresh session.
C20_Witness ==
    /\ pc = "input"
    /\ Len(messages) >= 2
    /\ tokens.total_input > 0
    /\ PERMISSION_MODE = accept_edits
    /\ MODEL # DEFAULT_MODEL

\* the positions at which pat occurs in text
Positions(text, pat) == { i \in 1..(Len(text) + 1) : OccursAt(text, pat, i) }

\* the text of the file as Python reads it, line endings as "\n"
Decoded(c) == [j \in 1..Len(c) |-> IF c[j] = "\r\n" THEN "\n" ELSE c[j]]

\* C21 (as claimed): edit_file changes the file only when old_text occurs
\* at exactly one position of the file's text; when it occurs at no
\* position or at two or more, edit_file returns success=false and the
\* file is unchanged.
C21_EditOnlyWhenUnique ==
    (disp.stage \in {"edited", "read"} /\ disp.fs0[PathA].kind = "file") =>
        LET n == Cardinality(Positions(Decoded(disp.fs0[PathA].content),
                                       disp.arguments["old_text"].s)) IN
        /\ n # 1 => (~disp.edit.success /\ fs = disp.fs0)
        /\ fs # disp.fs0 => n = 1

\* C22 (as claimed): when old_text occurs exactly once in an existing file,
\* edit_file followed by read_file of the path returns the original content
\* with that occurrence replaced by new_text and everything else unchanged.
C22_EditReadRoundTrip ==
    (disp.stage = "read" /\ disp.fs0[PathA].kind = "file") =>
        LET original == disp.fs0[PathA].content
            old == disp.arguments["old_text"].s
            at == Positions(original, old) IN
        Cardinality(at) = 1 =>
            LET p == CHOOSE i \in at : TRUE IN
            /\ disp.edit.success
            /\ disp.read.success
            /\ disp.read.content =
                  SubSeq(original, 1, p - 1) \o disp.arguments["new_text"].s
                      \o SubSeq(original, p + Len(old), Len(original))

\* the lines of an output, in order
LinesOf(pieces) == SelectSeq(pieces, LAMBDA x : "ln" \in DOMAIN x)

\* C23 (as claimed): for a command whose stdout has N > 50 lines, run_bash
\* with output_lines "both" returns the first 25 lines, a marker reporting
\* N - 50 omitted lines, and the last 25 lines (for N = 1000 the marker
\* says 950); with "all" it returns all N lines as they are.
C23_TruncationKeepsBothEnds ==
    (disp.stage = "returned" /\ disp.out.kind = "exit") =>
        LET all == LinesOf(disp.out.stdout)
            N == Len(all) IN
        N > 50 =>
            /\ disp.arguments["output_lines"] = PyStr(<<"both">>) =>
                  /\ LinesOf(disp.result.stdout) = SubSeq(all, 1, 25) \o SubSeq(all, N - 24, N)
                  /\ SelectSeq(disp.result.stdout, LAMBDA x : "marker" \in DOMAIN x) =
                        << [marker |-> "lines omitted ...", omitted |-> N - 50] >>
            /\ disp.arguments["output_lines"] = PyStr(<<"all">>) =>
                  disp.result.stdout = disp.out.stdout

\* a timeout brought into the range 1..600
Clamped(t) == IF t > 600 THEN 600 ELSE IF t < 1 THEN 1 ELSE t

\* C24: the timeout run_bash passes to the shell is the requested integer
\* timeout brought into 1..600: above 600 it is 600, below 1 it is 1, and
\* inside the range it is the request; the command is run once with it.
C24_TimeoutClamped ==
    disp.stage = "returned" =>
        disp.shell = << [command |-> disp.arguments["command"].s,
                         timeout |-> Clamped(disp.arguments["timeout"].i)] >>

\* C24 witness: a call that asked for 5000 seconds ran its command with a
\* timeout of 600.
C24_Witness ==
    /\ disp.stage = "returned"
    /\ disp.arguments["timeout"] = PyInt(5000)
    /\ Len(disp.shell) = 1
    /\ disp.shell[1].timeout = 600

\* C25 (as claimed): no message is changed after it was appended: in every
\* step the messages that stay in the history are, with their role,
\* content and the names and argument mappings of their tool calls, what
\* they were, also across the dispatch of their own tool calls.
C25_MessagesNeverChange ==
    [][IsPrefix(messages, messages') \/ IsPrefix(messages', messages)]_vars

\* C26: after the start the permission mode is changed by the /mode
\* command only: a step that changes it is a /mode step, so no response,
\* dispatch, prompt answer or interruption, failed call or other command
\* does; and whether run_bash blocks a command depends on the command
\* alone, not on the mode.
C26_OnlyModeCommandChangesMode ==
    [][/\ PERMISSION_MODE' # PERMISSION_MODE => SlashMode
       /\ (disp'.stage = "returned" /\ disp'.name = "run_bash" /\ disp'.called
              /\ IsStr(disp'.arguments["command"])) =>
             ("blocked" \in DOMAIN Result(disp')
                 <=> disp'.arguments["command"].s \in DangerousCommands)]_vars

\* C26 witness: /mode moved default to accept-edits, the prompt of the
\* run_bash call that followed was interrupted, and the mode is still
\* accept-edits.
C26_Witness ==
    /\ disp.stage = "returned"
    /\ disp.name = "run_bash"
    /\ disp.cycled = default
    /\ disp.input \in Interrupts
    /\ PERMISSION_MODE = accept_edits

\* C27: for every tool name outside the seven known tools, in every
\* permission mode and for every argument mapping, check_permission
\* returns allowed with no reason and shows no prompt.
C27_UnknownToolFailsOpen ==
    (disp.stage # "args" /\ disp.name \notin Registered) =>
        /\ disp.stage = "returned"
        /\ ~disp.prompted
        /\ disp.input = NoInput
        /\ disp.returned = [permitted |-> "True", reason |-> "None"]

\* C27 witness: check_permission returned for delete_file in default mode,
\* the mode that asks about every known tool that changes something.
C27_Witness ==
    /\ disp.stage = "returned"
    /\ disp.name = "delete_file"
    /\ disp.mode = default
    /\ "permitted" \in DOMAIN disp.returned
    /\ disp.returned.permitted = "True"

\* C28: the Spinner's thread has ended when the response of the call is used
\* and when the failure is handled, and the second stop() of the failure path
\* changes nothing: the event stays set, the thread is as the first stop()
\* left it and run_agent goes back to the input
C28_SpinnerStoppedBeforeUse ==
    [][/\ (UseResponse \/ HandleFailure) =>
             spinner.stop_event /\ spinner.thread = "ended"
       /\ (Spinner_stop /\ pc = "finally_stop" /\ disp.stage = "handled") =>
             spinner' = spinner
       /\ (Spinner_join /\ disp.stage = "handled") =>
             spinner' = spinner /\ pc' = "input"]_vars

\* C29: when every model call returns or fails and every prompt is answered,
\* a user turn, once the model is called, comes back to the input
C29_UserTurnReturnsToInput == (pc = "model") ~> (pc = "input")

\* every assistant message with k tool calls is followed at once by k tool
\* messages named after its calls in order, and every tool message is one
\* of those
WellFormed(msgs) ==
    /\ \A i \in 1..Len(msgs) :
          msgs[i].role = "assistant" =>
             LET k == Len(msgs[i].tool_calls) IN
             /\ i + k <= Len(msgs)
             /\ \A j \in 1..k :
                   /\ msgs[i + j].role = "tool"
                   /\ msgs[i + j].tool_name = msgs[i].tool_calls[j].name
    /\ \A t \in 1..Len(msgs) :
          msgs[t].role = "tool" =>
             \E i \in 1..(t - 1) :
                /\ msgs[i].role = "assistant"
                /\ t - i <= Len(msgs[i].tool_calls)
                /\ \A j \in (i + 1)..t : msgs[j].role = "tool"

\* C30: whenever the session awaits user input the history is well formed
C30_HistoryWellFormedAtInput == pc = "input" => WellFormed(messages)

====
